---- MODULE Spec2Model ----
(***************************************************************************)
(* A model of the notebook src/post.ipynb: one data-generating cell and    *)
(* three demonstration cells (plain vector, rasterized=True, rasterization *)
(* zorder threshold), each of which builds a figure, serializes it to an   *)
(* in-memory buffer inside a `with` block, measures the buffer and prints  *)
(* the size in megabytes.                                                  *)
(*                                                                         *)
(* The notebook's own statements are modelled one action per statement.    *)
(* What the library calls do (numpy broadcasting, the order and grouping   *)
(* in which an Axes draws its artists, astropy's unit scale) is modelled   *)
(* as the notebook's prose (lines 73 and 97) and the calls' arguments      *)
(* describe it.  Two things the source does not decide are left open: the  *)
(* pseudo-random values (an opaque generator state, rng) and the number of *)
(* bytes a serialization produces (any value of Sizes).                    *)
(***************************************************************************)
EXTENDS Integers, Sequences, FiniteSets, TLC

VARIABLES
  cell,        \* the notebook cell being executed, or "end"
  pc,          \* the statement of that cell to execute next
  status,      \* per cell: "pending", "ok" or "error"
  rng,         \* state of numpy's global pseudo-random generator
  data,        \* the name `data`
  other_line,  \* the name `other_line`
  figs,        \* every figure created so far (its one Axes)
  fig,         \* the names `fig, ax`: index into figs, 0 when unbound
  buffers,     \* every io.BytesIO object created so far
  buffer,      \* the name `buffer`: index into buffers, 0 when unbound
  filesize,    \* the name `filesize`
  stdout,      \* what print() has written
  log          \* history: the components started, in order

vars == <<cell, pc, status, rng, data, other_line, figs, fig, buffers,
          buffer, filesize, stdout, log>>

----------------------------------------------------------------------------
(* Bounds of the model *)

MaxSeed == 2

SizeUnit == 750000

MaxSizeSteps == 3

Seeds == 0..MaxSeed

Sizes == {k * SizeUnit : k \in 1..MaxSizeSteps}

----------------------------------------------------------------------------
(* Literals of the notebook *)

NTraces == 256

NSamples == 1000

DefaultZorder == 2

LayeredZorder == -10

RasterizationZorder == 0

MegabyteInBytes == 1000000

ConfigCells == {"plain", "raster", "layered"}

AllCells == {"gen"} \cup ConfigCells

----------------------------------------------------------------------------
(* Control flow: the cells run top to bottom *)

NextCellSwapped(c) ==
  CASE c = "gen" -> "raster"
    [] c = "raster" -> "plain"
    [] c = "plain" -> "layered"
    [] OTHER -> "end"

NextCell(c) ==
  CASE c = "gen" -> "plain"
    [] c = "plain" -> "raster"
    [] c = "raster" -> "layered"
    [] OTHER -> "end"

FirstLabel(c) ==
  CASE c = "gen" -> "data"
    [] c \in ConfigCells -> "subplots"
    [] OTHER -> "done"

\* An exception nothing catches: the cell is abandoned and execution is
\* back with the environment, which may go on to the next cell.
RaiseRetry(c) ==
  /\ status' = [status EXCEPT ![c] = "error"]
  /\ cell' = c
  /\ pc' = FirstLabel(c)

Raise(c) ==
  /\ status' = [status EXCEPT ![c] = "error"]
  /\ cell' = NextCell(c)
  /\ pc' = FirstLabel(NextCell(c))

Finish(c) ==
  /\ status' = [status EXCEPT ![c] = "ok"]
  /\ cell' = NextCell(c)
  /\ pc' = FirstLabel(NextCell(c))

\* The component a statement belongs to, logged when its first statement runs.
Logged(c, label) ==
  CASE c = "gen" /\ label = "data" -> Append(log, <<"generator", c>>)
    [] c \in ConfigCells /\ label = "subplots" -> Append(log, <<"renderer", c>>)
    [] c \in ConfigCells /\ label = "with" -> Append(log, <<"reporter", c>>)
    [] OTHER -> log

----------------------------------------------------------------------------
(* numpy: shapes and the pseudo-random source *)

Undefined == [defined |-> FALSE, shape |-> <<>>, draw |-> 0]

Advance(s) == (s + 1) % (MaxSeed + 1)

\* numpy's broadcasting rule: the trailing dimensions of `shape` are each 1
\* or equal to the corresponding dimension of `size`.
BroadcastsTo(shape, size) ==
  /\ Len(shape) <= Len(size)
  /\ \A i \in 1..Len(shape) :
       LET d == shape[Len(shape) + 1 - i]
           e == size[Len(size) + 1 - i]
       IN  d = 1 \/ d = e

\* np.random.uniform(..., size=n): a 1-D array of n values.
uniform(n, s) == [defined |-> TRUE, shape |-> <<n>>, draw |-> s]

normalShapeOfLoc(loc, size, s) ==
  [defined |-> TRUE, shape |-> loc.shape, draw |-> s]

\* np.random.normal(loc, size=size): an array of shape `size`.
normal(loc, size, s) == [defined |-> TRUE, shape |-> size, draw |-> s]

\* size=(1000, 256) of line 40.
DataSize == <<NSamples, NTraces>>

----------------------------------------------------------------------------
(* matplotlib: figures, artists and how an Axes is drawn *)

EmptyAxes == [lines |-> <<>>, rz_set |-> FALSE, rz |-> 0]

NewFigureReuse(fs) == IF fs = <<>> THEN Append(fs, EmptyAxes) ELSE fs

\* plt.subplots(): a new figure with one empty Axes.
NewFigure(fs) == Append(fs, EmptyAxes)

\* The keyword arguments each cell passes when it plots `data`.
TraceZorderDefault(c) == DefaultZorder

TraceZorder(c) == IF c = "layered" THEN LayeredZorder ELSE DefaultZorder

TraceRasterized(c) == c = "raster"

HasThreshold(c) == c = "layered"

\* ax.plot(y, ...): one Line2D per column of a 2-D y, one for a 1-D y.
Columns(arr) == IF Len(arr.shape) = 2 THEN arr.shape[2] ELSE 1

Line2D(src, arr, i, z, r) ==
  [src |-> src, col |-> i, n |-> arr.shape[1], draw |-> arr.draw,
   zorder |-> z, rasterized |-> r]

plot(ax, src, arr, z, r) ==
  [ax EXCEPT !.lines =
     @ \o [i \in 1..Columns(arr) |-> Line2D(src, arr, i, z, r)]]

set_rasterization_zorder(ax, z) == [ax EXCEPT !.rz_set = TRUE, !.rz = z]

RECURSIVE SortZorders(_)
SortZorders(zs) ==
  IF zs = {} THEN <<>>
  ELSE LET m == CHOOSE z \in zs : \A y \in zs : z <= y
       IN  <<m>> \o SortZorders(zs \ {m})

RECURSIVE Concat(_)
Concat(ss) == IF ss = <<>> THEN <<>> ELSE Head(ss) \o Concat(Tail(ss))

\* The artists in drawing order: by zorder, ties in insertion order.
SortByZorder(lines) ==
  LET zs == SortZorders({lines[i].zorder : i \in 1..Len(lines)})
  IN  Concat([k \in 1..Len(zs) |->
               SelectSeq(lines, LAMBDA a : a.zorder = zs[k])])

Image(artists) == [op |-> "image", artists |-> artists]

Stroke(a) == [op |-> "stroke", artists |-> <<a>>]

\* What drawing an Axes puts into a vector document.  The artists below the
\* rasterization zorder are drawn between one start and one stop of
\* rasterizing, so they end up in one image (line 97); every other artist is
\* drawn on its own, as an image of its own when it is marked rasterized
\* (line 73) and as a vector stroke otherwise.  No artist of the notebook
\* sits exactly at the threshold.
Draw(ax) ==
  LET sorted == SortByZorder(ax.lines)
      below  == IF ax.rz_set
                THEN SelectSeq(sorted, LAMBDA a : a.zorder < ax.rz) ELSE <<>>
      rest   == IF ax.rz_set
                THEN SelectSeq(sorted, LAMBDA a : a.zorder >= ax.rz)
                ELSE sorted
  IN  (IF below = <<>> THEN <<>> ELSE <<Image(below)>>)
      \o [i \in 1..Len(rest) |->
           IF rest[i].rasterized THEN Image(<<rest[i]>>) ELSE Stroke(rest[i])]

----------------------------------------------------------------------------
(* io.BytesIO and the unit conversion *)

\* io.BytesIO(): a new, empty, open buffer.
BytesIO(c) ==
  [owner |-> c, closed |-> FALSE, written |-> FALSE, nbytes |-> 0,
   doc |-> <<>>]

closeNothing(bufs, b) == bufs

\* The buffer's __exit__: close().
close(bufs, b) == [bufs EXCEPT ![b].closed = TRUE]

RECURSIVE GCD(_, _)
GCD(a, b) == IF b = 0 THEN a ELSE GCD(b, a % b)

\* (n * u.byte).to(unit): n bytes in a unit of `scale` bytes, as the
\* fraction n / scale in lowest terms.
to(n, scale, unit) ==
  LET g == GCD(n, scale)
  IN  [defined |-> TRUE, num |-> n \div g, den |-> scale \div g,
       unit |-> unit]

NoFilesize == [defined |-> FALSE, num |-> 0, den |-> 1, unit |-> ""]

FilesizePlain(n) == to(n, MegabyteInBytes, "Mbyte")

FilesizeRaster(n) == to(n, MegabyteInBytes, "Mbyte")

FilesizeLayeredBinary(n) == to(n, 1048576, "Mbyte")

FilesizeLayered(n) == to(n, MegabyteInBytes, "Mbyte")

Filesize(c, n) ==
  CASE c = "plain" -> FilesizePlain(n)
    [] c = "raster" -> FilesizeRaster(n)
    [] OTHER -> FilesizeLayered(n)

----------------------------------------------------------------------------
(* The initial state: a fresh kernel, nothing bound, the generator in an    *)
(* arbitrary state (the notebook sets no seed).                             *)

Init ==
  /\ cell = "gen"
  /\ pc = "data"
  /\ status = [c \in AllCells |-> "pending"]
  /\ rng \in Seeds
  /\ data = Undefined
  /\ other_line = Undefined
  /\ figs = <<>>
  /\ fig = 0
  /\ buffers = <<>>
  /\ buffer = 0
  /\ filesize = NoFilesize
  /\ stdout = <<>>
  /\ log = <<>>

At(c, label) == cell = c /\ pc = label

----------------------------------------------------------------------------
(* Cell "gen", lines 40-42 *)

\* data = np.random.normal(np.random.uniform(-10, 10, size=256),
\*                         size=(1000, 256))
GenData ==
  /\ At("gen", "data")
  /\ LET loc == uniform(NTraces, rng)
     IN  /\ BroadcastsTo(loc.shape, DataSize)
         /\ data' = normal(loc, DataSize, Advance(rng))
  /\ rng' = Advance(Advance(rng))
  /\ pc' = "other_line"
  /\ log' = Logged("gen", "data")
  /\ UNCHANGED <<cell, status, other_line, figs, fig, buffers, buffer,
                 filesize, stdout>>

\* other_line = np.random.uniform(size=1000)
GenOtherLine ==
  /\ At("gen", "other_line")
  /\ other_line' = uniform(NSamples, rng)
  /\ rng' = Advance(rng)
  /\ Finish("gen")
  /\ UNCHANGED <<data, figs, fig, buffers, buffer, filesize, stdout, log>>

----------------------------------------------------------------------------
(* The demonstration cells, lines 58-66, 82-90 and 106-116 *)

\* fig, ax = plt.subplots()
Subplots(c) ==
  /\ At(c, "subplots")
  /\ figs' = NewFigure(figs)
  /\ fig' = Len(figs')
  /\ pc' = "plot_data"
  /\ log' = Logged(c, "subplots")
  /\ UNCHANGED <<cell, status, rng, data, other_line, buffers, buffer,
                 filesize, stdout>>

\* ax.plot(data, marker="", linewidth=1.0, alpha=0.5[, rasterized=True]
\*         [, zorder=-10]); a NameError when `data` was never bound.
PlotData(c) ==
  /\ At(c, "plot_data")
  /\ data.defined
  /\ figs' = [figs EXCEPT ![fig] =
                plot(@, "data", data, TraceZorder(c), TraceRasterized(c))]
  /\ pc' = IF HasThreshold(c) THEN "set_rasterization_zorder"
           ELSE "plot_other_line"
  /\ UNCHANGED <<cell, status, rng, data, other_line, fig, buffers, buffer,
                 filesize, stdout, log>>

\* ax.set_rasterization_zorder(0)
SetRasterizationZorder(c) ==
  /\ At(c, "set_rasterization_zorder")
  /\ figs' = [figs EXCEPT ![fig] =
                set_rasterization_zorder(@, RasterizationZorder)]
  /\ pc' = "plot_other_line"
  /\ UNCHANGED <<cell, status, rng, data, other_line, fig, buffers, buffer,
                 filesize, stdout, log>>

\* ax.plot(other_line, marker="", color="k")
PlotOtherLine(c) ==
  /\ At(c, "plot_other_line")
  /\ other_line.defined
  /\ figs' = [figs EXCEPT ![fig] =
                plot(@, "other_line", other_line, DefaultZorder, FALSE)]
  /\ pc' = "with"
  /\ UNCHANGED <<cell, status, rng, data, other_line, fig, buffers, buffer,
                 filesize, stdout, log>>

\* with io.BytesIO() as buffer:
WithEnter(c) ==
  /\ At(c, "with")
  /\ buffers' = Append(buffers, BytesIO(c))
  /\ buffer' = Len(buffers')
  /\ pc' = "savefig"
  /\ log' = Logged(c, "with")
  /\ UNCHANGED <<cell, status, rng, data, other_line, figs, fig, filesize,
                 stdout>>

\* fig.savefig(buffer, format="pdf", dpi=250): the drawn document is written
\* to the open buffer; how many bytes that is, the source does not say.
Savefig(c) ==
  /\ At(c, "savefig")
  /\ ~buffers[buffer].closed
  /\ \E n \in Sizes :
       buffers' = [buffers EXCEPT ![buffer].written = TRUE,
                                  ![buffer].nbytes = n,
                                  ![buffer].doc = Draw(figs[fig])]
  /\ pc' = "filesize"
  /\ UNCHANGED <<cell, status, rng, data, other_line, figs, fig, buffer,
                 filesize, stdout, log>>

\* filesize = (buffer.getbuffer().nbytes * u.byte).to(u.megabyte); the
\* memoryview is a temporary, gone when the statement ends.
MeasureFilesize(c) ==
  /\ At(c, "filesize")
  /\ ~buffers[buffer].closed
  /\ filesize' = Filesize(c, buffers[buffer].nbytes)
  /\ pc' = "print"
  /\ UNCHANGED <<cell, status, rng, data, other_line, figs, fig, buffers,
                 buffer, stdout, log>>

\* print(filesize)
PrintFilesize(c) ==
  /\ At(c, "print")
  /\ filesize.defined
  /\ stdout' = Append(stdout, [cell |-> c, num |-> filesize.num,
                               den |-> filesize.den, unit |-> filesize.unit])
  /\ pc' = "exit"
  /\ UNCHANGED <<cell, status, rng, data, other_line, figs, fig, buffers,
                 buffer, filesize, log>>

\* The end of the with block: the buffer's __exit__ closes it.
WithExit(c) ==
  /\ At(c, "exit")
  /\ buffers' = close(buffers, buffer)
  /\ Finish(c)
  /\ UNCHANGED <<rng, data, other_line, figs, fig, buffer, filesize, stdout,
                 log>>

----------------------------------------------------------------------------
(* Failures.  Any statement may raise; nothing in the notebook catches.    *)

OutsideWith(c) ==
  IF c = "gen" THEN {"data", "other_line"}
  ELSE {"subplots", "plot_data", "plot_other_line", "with"}
       \cup (IF HasThreshold(c) THEN {"set_rasterization_zorder"} ELSE {})

InsideWith == {"savefig", "filesize", "print"}

\* A statement outside the with block raises.
RaiseOutside(c) ==
  /\ cell = c
  /\ pc \in OutsideWith(c)
  /\ log' = Logged(c, pc)
  /\ Raise(c)
  /\ UNCHANGED <<rng, data, other_line, figs, fig, buffers, buffer, filesize,
                 stdout>>

\* A statement inside the with block raises: the buffer's __exit__ runs and
\* the exception goes on.
RaiseInside(c) ==
  /\ cell = c
  /\ c \in ConfigCells
  /\ pc \in InsideWith
  /\ buffers' = close(buffers, buffer)
  /\ Raise(c)
  /\ UNCHANGED <<rng, data, other_line, figs, fig, buffer, filesize, stdout,
                 log>>

Next ==
  \/ GenData
  \/ GenOtherLine
  \/ \E c \in ConfigCells :
       \/ Subplots(c)
       \/ PlotData(c)
       \/ SetRasterizationZorder(c)
       \/ PlotOtherLine(c)
       \/ WithEnter(c)
       \/ Savefig(c)
       \/ MeasureFilesize(c)
       \/ PrintFilesize(c)
       \/ WithExit(c)
       \/ RaiseInside(c)
  \/ \E c \in AllCells : RaiseOutside(c)

Spec == Init /\ [][Next]_vars

----------------------------------------------------------------------------
(* Properties *)

BuffersOf(c) == {b \in 1..Len(buffers) : buffers[b].owner = c}

OpenBuffers == {b \in 1..Len(buffers) : ~buffers[b].closed}

Written(c) == {b \in BuffersOf(c) : buffers[b].written}

Images(doc) == {i \in 1..Len(doc) : doc[i].op = "image"}

Strokes(doc) == {i \in 1..Len(doc) : doc[i].op = "stroke"}

Occurrences(component) == {i \in 1..Len(log) : log[i][1] = component}

Runs(component, c) == {i \in 1..Len(log) : log[i] = <<component, c>>}

\* C2: in the threshold-layered cell the document written holds exactly one
\* image, made of all 256 traces (every artist whose zorder is below the
\* threshold 0), and exactly one vector stroke, the reference line (the only
\* artist at or above the threshold).
LayeredRasterizedTogether ==
  \A b \in Written("layered") :
    LET doc == buffers[b].doc
    IN  /\ Cardinality(Images(doc)) = 1
        /\ \A i \in Images(doc) :
             /\ Len(doc[i].artists) = 256
             /\ \A k \in 1..256 :
                  /\ doc[i].artists[k].src = "data"
                  /\ doc[i].artists[k].col = k
        /\ Cardinality(Strokes(doc)) = 1
        /\ \A i \in Strokes(doc) : doc[i].artists[1].src = "other_line"
        /\ \A i \in 1..Len(doc) : \A k \in 1..Len(doc[i].artists) :
             /\ doc[i].artists[k].zorder < 0 => doc[i].op = "image"
             /\ doc[i].artists[k].zorder >= 0 => doc[i].op = "stroke"

LayeredSerialized == Written("layered") # {}

\* Structure of the rasterized=True cell (the first half of C3): each of the
\* 256 traces is an image of its own and the reference line is a stroke.
RasterizedSeparately ==
  \A b \in Written("raster") :
    LET doc == buffers[b].doc
    IN  /\ Cardinality(Images(doc)) = 256
        /\ \A i \in Images(doc) :
             Len(doc[i].artists) = 1 /\ doc[i].artists[1].src = "data"
        /\ Cardinality(Strokes(doc)) = 1
        /\ \A i \in Strokes(doc) : doc[i].artists[1].src = "other_line"

\* C4: once generated, the sample matrix has shape (1000, 256) and the
\* reference sequence length 1000, in every later state, so every line
\* plotted in any of the three figures has 1000 samples and every figure
\* that holds the traces holds 256 of them.
SampleShapes ==
  /\ data.defined => data.shape = <<1000, 256>>
  /\ other_line.defined => other_line.shape = <<1000>>
  /\ status["gen"] = "ok" =>
       /\ data.defined /\ other_line.defined
       /\ data.shape[1] = other_line.shape[1]
  /\ \A f \in 1..Len(figs) :
       LET lines == figs[f].lines
       IN  /\ \A i \in 1..Len(lines) : lines[i].n = 1000
           /\ Cardinality({i \in 1..Len(lines) : lines[i].src = "data"})
                \in {0, 256}

AllThreePlotted ==
  /\ status["gen"] = "ok"
  /\ Len(figs) = 3
  /\ \A f \in 1..3 : Len(figs[f].lines) = 257

\* num / den = n / 1,000,000 (den divides 1,000,000 in lowest terms).
IsMillionth(num, den, n) ==
  /\ den > 0
  /\ 1000000 % den = 0
  /\ num * (1000000 \div den) = n

MeasuredBytes(c) == {buffers[b].nbytes : b \in Written(c)}

\* C6: every size printed, in each of the three cells, is the measured byte
\* count divided by 1,000,000, in megabytes; so two cells that measure the
\* same byte count print the same value.
DecimalMegabytes ==
  /\ \A i \in 1..Len(stdout) :
       /\ stdout[i].unit = "Mbyte"
       /\ \A n \in MeasuredBytes(stdout[i].cell) :
            IsMillionth(stdout[i].num, stdout[i].den, n)
  /\ \A i, j \in 1..Len(stdout) :
       MeasuredBytes(stdout[i].cell) = MeasuredBytes(stdout[j].cell) =>
         /\ stdout[i].num = stdout[j].num
         /\ stdout[i].den = stdout[j].den

SameBytesPrintedThrice ==
  /\ Len(stdout) = 3
  /\ MeasuredBytes("plain") = {2 * SizeUnit}
  /\ MeasuredBytes("raster") = {SizeUnit}
  /\ MeasuredBytes("layered") = {2 * SizeUnit}

FixedOrder ==
  <<  <<"generator", "gen">>,
      <<"renderer", "plain">>, <<"reporter", "plain">>,
      <<"renderer", "raster">>, <<"reporter", "raster">>,
      <<"renderer", "layered">>, <<"reporter", "layered">>  >>

Position(e) == CHOOSE k \in 1..Len(FixedOrder) : FixedOrder[k] = e

\* C7 as stated: generator, renderer and reporter execute once each, the
\* generator before the renderer before the reporter.
OnceEachInOrder ==
  /\ \A comp \in {"generator", "renderer", "reporter"} :
       Cardinality(Occurrences(comp)) <= 1
  /\ \A i \in Occurrences("generator"), j \in Occurrences("renderer") : i < j
  /\ \A i \in Occurrences("renderer"), j \in Occurrences("reporter") : i < j

\* C7 as amended: the generator executes once, first; then for each of the
\* three configurations, in the order plain, rasterized, layered, the
\* renderer and then the reporter execute at most once each, a reporter
\* only after the renderer of its configuration; no step runs twice.
OncePerConfigurationInOrder ==
  /\ \A i \in 1..Len(log) : \E k \in 1..Len(FixedOrder) : FixedOrder[k] = log[i]
  /\ \A i, j \in 1..Len(log) : i < j => Position(log[i]) < Position(log[j])
  /\ log # <<>> => log[1] = <<"generator", "gen">>
  /\ \A c \in ConfigCells :
       Runs("reporter", c) # {} => Runs("renderer", c) # {}

AllComponentsRan == log = FixedOrder

ExpectedLines(lines, d, o) ==
  /\ Len(lines) = 257
  /\ \A i \in 1..256 :
       /\ lines[i].src = "data"
       /\ lines[i].col = i
       /\ lines[i].draw = d.draw
  /\ lines[257].src = "other_line"
  /\ lines[257].draw = o.draw

\* C8: once generated, the sample matrix and the reference sequence are
\* never modified by a later step, and the figure a configuration is about
\* to serialize holds exactly the 256 traces and the one reference line of
\* that same data, nothing of an earlier configuration.
SameDataFreshFigure ==
  [][ /\ data.defined => data' = data
      /\ other_line.defined => other_line' = other_line
      /\ \A c \in ConfigCells :
           (cell' = c /\ pc' = "savefig") =>
             ExpectedLines(figs'[fig'].lines, data', other_line')
    ]_vars

ThirdFigureReady ==
  /\ At("layered", "savefig")
  /\ Len(figs) = 3
  /\ status["plain"] = "ok"
  /\ status["raster"] = "ok"

FirstLabels == {"data", "subplots", "done"}

\* C9: a step's buffer is empty when created, is written by the
\* serialization, is open when it is measured, and is closed before the
\* next step begins; at most one buffer is open at any time and none when
\* the workflow has finished.
BufferLifecycle ==
  /\ Cardinality(OpenBuffers) <= 1
  /\ \A b \in OpenBuffers :
       /\ b = buffer
       /\ buffers[b].owner = cell
       /\ pc \in {"savefig", "filesize", "print", "exit"}
  /\ pc = "savefig" =>
       /\ buffer \in OpenBuffers
       /\ buffers[buffer].nbytes = 0
       /\ ~buffers[buffer].written
  /\ pc \in {"filesize", "print"} =>
       /\ buffer \in OpenBuffers
       /\ buffers[buffer].written
  /\ pc = "print" =>
       /\ filesize.defined
       /\ IsMillionth(filesize.num, filesize.den, buffers[buffer].nbytes)
  /\ pc \in FirstLabels => OpenBuffers = {}
  /\ cell = "end" => OpenBuffers = {}

ThreeBuffersReleased ==
  /\ cell = "end"
  /\ Len(buffers) = 3
  /\ \A b \in 1..3 : buffers[b].written /\ buffers[b].closed

\* C10: when a step has failed, the failure has left the step (control is
\* no longer in it), the step was not run again, it printed no size, and
\* any buffer it had opened is closed.
FailurePropagates ==
  \A c \in ConfigCells :
    status[c] = "error" =>
      /\ cell # c
      /\ Cardinality(Runs("renderer", c)) <= 1
      /\ Cardinality(Runs("reporter", c)) <= 1
      /\ \A i \in 1..Len(stdout) : stdout[i].cell # c
      /\ \A b \in BuffersOf(c) : buffers[b].closed

FailedWhileSerializing ==
  /\ status["plain"] = "error"
  /\ BuffersOf("plain") # {}
  /\ \A b \in BuffersOf("plain") : ~buffers[b].written

====
